---- MODULE Spec2Model ----
(***************************************************************************)
(* A model of nengo/utils/numpy.py: the module's free functions over       *)
(* shapes and arrays.  Each function is an operator computed the way the   *)
(* code computes it; each call is one action of the state machine, which   *)
(* draws the arguments, runs the function and records what came back.      *)
(*                                                                         *)
(* Arrays are records  [shape, data]  with  data  the elements in C        *)
(* (row-major) order.  Array objects that carry flags live in  heap : an   *)
(* object is  [shape, data, writeable, base]  where  base = 0  for an      *)
(* array that owns its buffer and otherwise is the heap index of the       *)
(* array whose buffer it shares.                                           *)
(***************************************************************************)
EXTENDS Integers, Sequences, FiniteSets, TLC

VARIABLES pc, op, args, ret, heap, wr

vars == <<pc, op, args, ret, heap, wr>>

(***************************************************************************)
(* Bounds of the model.                                                    *)
(***************************************************************************)
MaxNdim == 2      \* most axes of an input array or entries of an input shape
MaxSize == 2      \* most elements of an input array; largest axis length
MaxElem == 1      \* array elements are 0..MaxElem
MaxInt == 3       \* compare's numbers are -MaxInt..MaxInt, and NaN
MaxArgs == 2      \* most arguments of meshgrid_nd
MaxN == 3         \* array_hash's threshold n is 1..MaxN
MaxFft == 6       \* rfftfreq's n is 1..MaxFft
MaxSpacing == 2   \* rfftfreq's d is a non-zero integer in -MaxSpacing..MaxSpacing

(***************************************************************************)
(* Python values.                                                          *)
(***************************************************************************)
None == [isNone |-> TRUE, v |-> 0]

Some(v) == [isNone |-> FALSE, v |-> v]

\* What a call hands back: a value, or the exception it raised.
Returned(val) == [exc |-> "none", msg |-> "", attr |-> "", val |-> val]

Raised(exc, msg, attr) == [exc |-> exc, msg |-> msg, attr |-> attr, val |-> <<>>]

Max(a, b) == IF a >= b THEN a ELSE b

Abs(a) == IF a < 0 THEN -a ELSE a

\* [1] * k
Ones(k) == [i \in 1..k |-> 1]

RECURSIVE Prod(_)
\* The product of a shape's entries: the number of elements (ndarray.size).
Prod(s) == IF s = <<>> THEN 1 ELSE Head(s) * Prod(Tail(s))

Shapes == {s \in UNION {[1..k -> 0..MaxSize] : k \in 0..MaxNdim} : Prod(s) <= MaxSize}

Elems == 0..MaxElem

\* Array-likes: a shape and that many elements.
Arrays == UNION {{[shape |-> s, data |-> d] : d \in [1..Prod(s) -> Elems]} : s \in Shapes}

(***************************************************************************)
(* compare                                                                 *)
(***************************************************************************)
\* Numbers: a float that is NaN, or an integer.
Numbers == {[nan |-> TRUE, v |-> 0]} \cup {[nan |-> FALSE, v |-> i] : i \in -MaxInt..MaxInt}

\* a == b, a > b, a < b.  Every comparison with NaN is false.
PyEq(a, b) == ~a.nan /\ ~b.nan /\ a.v = b.v

PyGt(a, b) == ~a.nan /\ ~b.nan /\ a.v > b.v

PyLt(a, b) == ~a.nan /\ ~b.nan /\ a.v < b.v

\* A comparator with the two signs exchanged.
compare_swapped(a, b) ==
    IF PyEq(a, b) THEN Some(0)
    ELSE IF PyGt(a, b) THEN Some(-1)
    ELSE IF PyLt(a, b) THEN Some(1)
    ELSE None

compare(a, b) ==
    IF PyEq(a, b) THEN Some(0)
    ELSE IF PyGt(a, b) THEN Some(1)
    ELSE IF PyLt(a, b) THEN Some(-1)
    ELSE None

(***************************************************************************)
(* as_shape, broadcast_shape                                               *)
(***************************************************************************)
\* Shape specifiers: an iterable of integers, one integer, or something that
\* is neither (a float, None).
ShapeSpecs ==
    {[kind |-> "iterable", items |-> s, n |-> 0] : s \in Shapes}
        \cup {[kind |-> "integer", items |-> <<>>, n |-> i] : i \in 0..MaxSize}
        \cup {[kind |-> "other", items |-> <<>>, n |-> 0]}

is_iterable(x) == x.kind = "iterable"

is_integer(x) == x.kind = "integer"

\* tuple(x)
tuple(x) == x.items

\* as_shape padding on the right.
as_shape_rightpad(x, min_dim) ==
    IF is_iterable(x) \/ is_integer(x)
    THEN LET shape == IF is_iterable(x) THEN tuple(x) ELSE <<x.n>>
         IN  Returned(IF Len(shape) < min_dim
                      THEN shape \o Ones(min_dim - Len(shape))
                      ELSE shape)
    ELSE Raised("ValueError", "cannot be safely converted to a shape", "")

\* as_shape taking whatever is not iterable for an integer.
as_shape_noraise(x, min_dim) ==
    LET shape == IF is_iterable(x) THEN tuple(x) ELSE <<x.n>>
    IN  Returned(IF Len(shape) < min_dim
                 THEN Ones(min_dim - Len(shape)) \o shape
                 ELSE shape)

as_shape(x, min_dim) ==
    IF is_iterable(x) \/ is_integer(x)
    THEN LET shape == IF is_iterable(x) THEN tuple(x) ELSE <<x.n>>
         IN  Returned(IF Len(shape) < min_dim
                      THEN Ones(min_dim - Len(shape)) \o shape
                      ELSE shape)
    ELSE Raised("ValueError", "cannot be safely converted to a shape", "")

broadcast_shape(shape, length) ==
    LET n == Len(shape)
    IN  IF n < length THEN Ones(length - n) \o shape ELSE shape

(***************************************************************************)
(* Arrays and array objects.                                               *)
(***************************************************************************)
RECURSIVE FlatUpTo(_, _, _)
\* The position in C order, among the first j axes, of index tuple idx.
FlatUpTo(shape, idx, j) ==
    IF j = 0 THEN 0 ELSE FlatUpTo(shape, idx, j - 1) * shape[j] + idx[j]

\* The position in C order of the element at index tuple idx (0-based).
FlatIndex(shape, idx) == FlatUpTo(shape, idx, Len(shape))

RECURSIVE Stride(_, _)
\* The number of elements one step along axis j skips.
Stride(shape, j) ==
    IF j >= Len(shape) THEN 1 ELSE shape[j + 1] * Stride(shape, j + 1)

\* The index tuple (0-based) of the element at position p (0-based) in C order.
Unravel(shape, p) ==
    [j \in 1..Len(shape) |-> (p \div Stride(shape, j)) % shape[j]]

\* arr[idx]
ElemAt(arr, idx) == arr.data[FlatIndex(arr.shape, idx) + 1]

\* np.array(x): a fresh, writeable array that owns a copy of x's elements.
np_array(x) == [shape |-> x.shape, data |-> x.data, writeable |-> TRUE, base |-> 0]

\* The heap index of the object whose buffer object id reads and writes.
Owner(h, id) == IF h[id].base = 0 THEN id ELSE h[id].base

\* The elements of object id, in C order (ndarray.data.tobytes()).
tobytes(h, id) == h[Owner(h, id)].data

\* a.view(): a new object over a's buffer; it starts with a's flags.
view(h, a) ==
    [heap |-> Append(h, [shape |-> h[a].shape, data |-> <<>>,
                         writeable |-> h[a].writeable, base |-> Owner(h, a)]),
     id |-> Len(h) + 1]

\* v.setflags(write=w), v.flags.writeable = w
setflags(h, v, w) == [h EXCEPT ![v].writeable = w]

\* y.flat[i] = val: refused on an array that is not writeable.
setitem(h, y, i, val) ==
    IF h[y].writeable
    THEN [heap |-> [h EXCEPT ![Owner(h, y)].data[i] = val], status |-> "ok"]
    ELSE [heap |-> h, status |-> "ValueError"]

(***************************************************************************)
(* array                                                                   *)
(***************************************************************************)
\* array padding the shape on the left, as broadcasting does.
array_leftpad(x, dims, min_dims, readonly) ==
    LET y == np_array(x)
        ndim == Len(y.shape)
        d == IF dims.isNone THEN Max(min_dims, ndim) ELSE dims.v
    IN  IF ndim > d
        THEN [ret |-> Raised("ValidationError", "Input cannot be cast to array", "dims"),
              heap |-> <<>>]
        ELSE LET y1 == IF ndim < d
                       THEN [y EXCEPT !.shape = Ones(d - ndim) \o y.shape]
                       ELSE y
                 y2 == IF readonly THEN [y1 EXCEPT !.writeable = FALSE] ELSE y1
             IN  [ret |-> Returned(y2), heap |-> <<y2>>]

\* array applying min_dims to a given dims too.
array_mindims(x, dims, min_dims, readonly) ==
    LET y == np_array(x)
        ndim == Len(y.shape)
        d == IF dims.isNone THEN Max(min_dims, ndim) ELSE Max(min_dims, dims.v)
    IN  IF ndim > d
        THEN [ret |-> Raised("ValidationError", "Input cannot be cast to array", "dims"),
              heap |-> <<>>]
        ELSE LET y1 == IF ndim < d
                       THEN [y EXCEPT !.shape =
                                [i \in 1..d |-> IF i <= ndim THEN y.shape[i] ELSE 1]]
                       ELSE y
                 y2 == IF readonly THEN [y1 EXCEPT !.writeable = FALSE] ELSE y1
             IN  [ret |-> Returned(y2), heap |-> <<y2>>]

\* array that leaves the flags alone.
array_noflag(x, dims, min_dims, readonly) ==
    LET y == np_array(x)
        ndim == Len(y.shape)
        d == IF dims.isNone THEN Max(min_dims, ndim) ELSE dims.v
    IN  IF ndim > d
        THEN [ret |-> Raised("ValidationError", "Input cannot be cast to array", "dims"),
              heap |-> <<>>]
        ELSE LET y1 == IF ndim < d
                       THEN [y EXCEPT !.shape =
                                [i \in 1..d |-> IF i <= ndim THEN y.shape[i] ELSE 1]]
                       ELSE y
             IN  [ret |-> Returned(y1), heap |-> <<y1>>]

\* The call's result and the heap it leaves: the returned array is object 1.
array(x, dims, min_dims, readonly) ==
    LET y == np_array(x)
        ndim == Len(y.shape)
        d == IF dims.isNone THEN Max(min_dims, ndim) ELSE dims.v
    IN  IF ndim > d
        THEN [ret |-> Raised("ValidationError", "Input cannot be cast to array", "dims"),
              heap |-> <<>>]
        ELSE LET y1 == IF ndim < d
                       THEN [y EXCEPT !.shape =
                                [i \in 1..d |-> IF i <= ndim THEN y.shape[i] ELSE 1]]
                       ELSE y
                 y2 == IF readonly THEN [y1 EXCEPT !.writeable = FALSE] ELSE y1
             IN  [ret |-> Returned(y2), heap |-> <<y2>>]

(***************************************************************************)
(* array_hash                                                              *)
(*                                                                         *)
(* hash(bytes) is a fixed function of the bytes within one process; it is  *)
(* modelled by a polynomial hash.  np.random.RandomState(seed) is a        *)
(* deterministic generator: its stream is a function of the seed alone.    *)
(* It is modelled by a linear congruential generator; randint(0, high)     *)
(* reduces the next output into 0..high-1.  An element is one word of the  *)
(* byte string.  a[inds] with inds a list of index arrays, one per axis,   *)
(* picks one element per position (the list is read as a tuple of index    *)
(* arrays).                                                                *)
(***************************************************************************)
RECURSIVE pyhash(_)
\* hash(bytes)
pyhash(b) ==
    IF b = <<>> THEN 7
    ELSE (pyhash(SubSeq(b, 1, Len(b) - 1)) * 33 + b[Len(b)] + 1) % 65536

RECURSIVE RandomState(_, _)
\* The j-th output of the generator seeded with seed.
RandomState(seed, j) ==
    IF j = 0 THEN seed % 251 ELSE (RandomState(seed, j - 1) * 33 + 11) % 251

RECURSIVE SumSeq(_)
\* The sum of a sequence of numbers.
SumSeq(s) == IF s = <<>> THEN 0 ELSE Head(s) + SumSeq(Tail(s))

\* The index arrays, with the generator seeded from the array's contents.
sample_inds_by_content(h, a, n) ==
    LET shape == h[a].shape
        seed == SumSeq(tobytes(h, a))
    IN  [i \in 1..Len(shape) |->
            [k \in 1..n |-> RandomState(seed, (i - 1) * n + k) % shape[i]]]

\* rng = RandomState(a.size); inds = [rng.randint(0, a.shape[i], size=n) ...]:
\* one array of n indices (0-based) per axis, drawn axis after axis.
sample_inds(h, a, n) ==
    LET shape == h[a].shape
        seed == Prod(shape)
    IN  [i \in 1..Len(shape) |->
            [k \in 1..n |-> RandomState(seed, (i - 1) * n + k) % shape[i]]]

\* a[inds]: a new array of the elements at the positions the index arrays name.
getitem_inds(h, a, inds, n) ==
    LET arr == [shape |-> h[a].shape, data |-> tobytes(h, a)]
    IN  [heap |-> Append(h, [shape |-> <<n>>,
                             data |-> [k \in 1..n |->
                                 ElemAt(arr, [i \in 1..Len(arr.shape) |-> inds[i][k]])],
                             writeable |-> TRUE, base |-> 0]),
         id |-> Len(h) + 1]

\* The small branch with the flag cleared on a itself.
hash_all_inplace(h, a) ==
    LET h2 == setflags(h, a, FALSE)
        b == tobytes(h2, a)
    IN  [heap |-> h2, bytes |-> b, inds |-> <<>>, hash |-> pyhash(b)]

\* a.size < n: hash all elements, through a read-only view.
hash_all(h, a) ==
    LET v == view(h, a)
        h2 == setflags(v.heap, v.id, FALSE)
        b == tobytes(h2, v.id)
    IN  [heap |-> h2, bytes |-> b, inds |-> <<>>, hash |-> pyhash(b)]

\* a.size >= n: hash n sampled elements.
hash_sample(h, a, n) ==
    LET inds == sample_inds(h, a, n)
        v == getitem_inds(h, a, inds, n)
        h2 == setflags(v.heap, v.id, FALSE)
        b == tobytes(h2, v.id)
    IN  [heap |-> h2, bytes |-> b, inds |-> inds, hash |-> pyhash(b)]

\* array_hash of the array object a of heap h: the heap it leaves, the bytes
\* it hashed, the index arrays it drew and the hash it returns.
array_hash(h, a, n) ==
    IF Prod(h[a].shape) < n THEN hash_all(h, a) ELSE hash_sample(h, a, n)

(***************************************************************************)
(* meshgrid_nd                                                             *)
(***************************************************************************)
\* np.asarray of a sequence: a one-dimensional array.
asarray(a) == [shape |-> <<Len(a)>>, data |-> a]

\* a.reshape(shape): one entry of shape may be -1 and is then what is left of
\* a's size; the elements keep their C order.
reshape(a, shape) ==
    LET others == Prod([j \in 1..Len(shape) |-> IF shape[j] = -1 THEN 1 ELSE shape[j]])
    IN  [shape |-> [j \in 1..Len(shape) |->
                       IF shape[j] = -1 THEN Len(a.data) \div others ELSE shape[j]],
         data |-> a.data]

RECURSIVE BroadcastShapes(_)
\* The common shape of arrays of the same number of axes: on each axis an
\* array of length 1 takes the other arrays' length.
BroadcastShapes(shapes) ==
    IF Len(shapes) = 1 THEN shapes[1]
    ELSE LET rest == BroadcastShapes(Tail(shapes))
         IN  [j \in 1..Len(rest) |-> IF shapes[1][j] = 1 THEN rest[j] ELSE shapes[1][j]]

\* a broadcast to shape: an axis of length 1 repeats its only entry.
broadcast_to(a, shape) ==
    [shape |-> shape,
     data |-> [p \in 1..Prod(shape) |->
                  LET idx == Unravel(shape, p - 1)
                  IN  ElemAt(a, [j \in 1..Len(shape) |->
                                    IF a.shape[j] = 1 THEN 0 ELSE idx[j]])]]

\* np.broadcast_arrays(*arrs)
broadcast_arrays(arrs) ==
    IF arrs = <<>> THEN <<>>
    ELSE LET shape == BroadcastShapes([i \in 1..Len(arrs) |-> arrs[i].shape])
         IN  [i \in 1..Len(arrs) |-> broadcast_to(arrs[i], shape)]

\* meshgrid_nd with the axes in the opposite order.
meshgrid_nd_reversed(a) ==
    LET k == Len(a)
    IN  broadcast_arrays(
            [i \in 1..k |->
                reshape(asarray(a[i]), [j \in 1..k |-> IF j = k + 1 - i THEN -1 ELSE 1])])

\* s = len(args) * (1,); argument i is reshaped to s[:i] + (-1,) + s[i + 1:].
meshgrid_nd(a) ==
    LET k == Len(a)
    IN  broadcast_arrays(
            [i \in 1..k |->
                reshape(asarray(a[i]), [j \in 1..k |-> IF j = i THEN -1 ELSE 1])])

(***************************************************************************)
(* rfftfreq (the fallback)                                                 *)
(*                                                                         *)
(* A frequency is the exact rational  num / den , den # 0.                 *)
(***************************************************************************)
Rat(num, den) == [num |-> num, den |-> den]

RatEq(p, q) == p.num * q.den = q.num * p.den

RatNonNeg(p) == p.num * p.den >= 0

\* np.abs
RatAbs(p) == Rat(Abs(p.num), Abs(p.den))

\* np.fft.fftfreq(n, d): [0, 1, ..., (n-1)//2, -(n//2), ..., -1] / (d*n)
fftfreq(n, d) ==
    LET N == (n - 1) \div 2 + 1
    IN  [j \in 1..n |-> Rat(IF j <= N THEN j - 1 ELSE j - 1 - n, n * d)]

\* x[:m]
SliceTo(x, m) == SubSeq(x, 1, IF m < Len(x) THEN m ELSE Len(x))

rfftfreq(n, d) ==
    LET x == SliceTo(fftfreq(n, d), n \div 2 + 1)
    IN  [k \in 1..Len(x) |-> RatAbs(x[k])]

(***************************************************************************)
(* The state machine.                                                      *)
(***************************************************************************)
NoArgs == [none |-> TRUE]

NoWrite == [status |-> "none", i |-> 0, v |-> 0]

Init ==
    /\ pc = "idle"
    /\ op = "none"
    /\ args = NoArgs
    /\ ret = Returned(<<>>)
    /\ heap = <<>>
    /\ wr = NoWrite

Compare ==
    /\ pc = "idle"
    /\ \E a \in Numbers, b \in Numbers :
        /\ args' = [a |-> a, b |-> b]
        /\ ret' = [ab |-> compare(a, b), ba |-> compare(b, a),
                   aa |-> compare(a, a)]
    /\ pc' = "done"
    /\ op' = "compare"
    /\ UNCHANGED <<heap, wr>>

AsShape ==
    /\ pc = "idle"
    /\ \E x \in ShapeSpecs, min_dim \in 0..(MaxNdim + 1) :
        /\ args' = [x |-> x, min_dim |-> min_dim]
        /\ ret' = as_shape(x, min_dim)
    /\ pc' = "done"
    /\ op' = "as_shape"
    /\ UNCHANGED <<heap, wr>>

BroadcastShape ==
    /\ pc = "idle"
    /\ \E shape \in Shapes, length \in 0..(MaxNdim + 1) :
        /\ args' = [shape |-> shape, length |-> length]
        /\ ret' = Returned(broadcast_shape(shape, length))
    /\ pc' = "done"
    /\ op' = "broadcast_shape"
    /\ UNCHANGED <<heap, wr>>

\* dims: None or an integer.
DimsArgs == {None} \cup {Some(d) : d \in 0..(MaxNdim + 1)}

Array ==
    /\ pc = "idle"
    /\ \E x \in Arrays, dims \in DimsArgs, min_dims \in 0..(MaxNdim + 1),
          readonly \in BOOLEAN :
        LET r == array(x, dims, min_dims, readonly)
        IN  /\ args' = [x |-> x, dims |-> dims, min_dims |-> min_dims,
                        readonly |-> readonly]
            /\ ret' = r.ret
            /\ heap' = r.heap
    /\ pc' = "done"
    /\ op' = "array"
    /\ wr' = NoWrite

\* The caller assigns to an element of the array that array returned.
WriteAttempt ==
    /\ pc = "done"
    /\ op = "array"
    /\ ret.exc = "none"
    /\ \E i \in 1..Len(heap[1].data), val \in Elems :
        LET r == setitem(heap, 1, i, val)
        IN  /\ heap' = r.heap
            /\ wr' = [status |-> r.status, i |-> i, v |-> val]
    /\ UNCHANGED <<pc, op, args, ret>>

\* The caller's heap at a call of array_hash: the argument is its only object.
ArgHeap(a, w) == <<[shape |-> a.shape, data |-> a.data, writeable |-> w, base |-> 0]>>

\* array_hash(a, n) on an array a the caller owns: a is object 1.  A
\* zero-dimensional a with n <= 1 is left out: it takes the sampling branch
\* with no index array at all.
ArrayHash ==
    /\ pc = "idle"
    /\ \E a \in Arrays, w \in BOOLEAN, n \in 1..MaxN :
        /\ ~(a.shape = <<>> /\ n <= 1)
        /\ LET r == array_hash(ArgHeap(a, w), 1, n)
           IN  /\ args' = [a |-> a, writeable |-> w, n |-> n]
               /\ ret' = Returned([hash |-> r.hash, bytes |-> r.bytes, inds |-> r.inds])
               /\ heap' = r.heap
    /\ pc' = "done"
    /\ op' = "array_hash"
    /\ wr' = NoWrite

\* One-dimensional sequences, the arguments of meshgrid_nd.
Vectors == UNION {[1..l -> Elems] : l \in 0..MaxSize}

MeshgridNd ==
    /\ pc = "idle"
    /\ \E k \in 0..MaxArgs :
        \E a \in [1..k -> Vectors] :
            /\ args' = [a |-> a]
            /\ ret' = Returned(meshgrid_nd(a))
    /\ pc' = "done"
    /\ op' = "meshgrid_nd"
    /\ UNCHANGED <<heap, wr>>

Rfftfreq ==
    /\ pc = "idle"
    /\ \E n \in 1..MaxFft, d \in (-MaxSpacing..MaxSpacing) \ {0} :
        /\ args' = [n |-> n, d |-> d]
        /\ ret' = Returned(rfftfreq(n, d))
    /\ pc' = "done"
    /\ op' = "rfftfreq"
    /\ UNCHANGED <<heap, wr>>

\* The call is over; the caller is free to make the next one.
Return ==
    /\ pc = "done"
    /\ pc' = "idle"
    /\ op' = "none"
    /\ args' = NoArgs
    /\ ret' = Returned(<<>>)
    /\ heap' = <<>>
    /\ wr' = NoWrite

Next ==
    \/ Compare
    \/ AsShape
    \/ BroadcastShape
    \/ Array
    \/ WriteAttempt
    \/ ArrayHash
    \/ MeshgridNd
    \/ Rfftfreq
    \/ Return

Spec == Init /\ [][Next]_vars

(***************************************************************************)
(* The properties.                                                         *)
(***************************************************************************)
\* The number of axes array is to produce: dims if given, else
\* max(min_dims, ndim).
EffectiveDims(a) ==
    IF a.dims.isNone THEN Max(a.min_dims, Len(a.x.shape)) ELSE a.dims.v

\* C1: when x has at most the effective number of axes, array returns an
\* array of exactly that many axes whose shape is x's shape followed by 1s
\* and whose elements in flattened order are x's; with dims not given the
\* call never fails.
C1_ArrayPadsTrailingOnes ==
    op = "array" =>
        LET ndim == Len(args.x.shape)
            d == EffectiveDims(args)
        IN  /\ ndim <= d =>
                /\ ret.exc = "none"
                /\ Len(ret.val.shape) = d
                /\ \A i \in 1..d :
                       ret.val.shape[i] = IF i <= ndim THEN args.x.shape[i] ELSE 1
                /\ ret.val.data = args.x.data
            /\ args.dims.isNone => ret.exc = "none"

\* array([e0, e1], dims=d) with d > 1 came back with trailing axes added.
C1_Witness ==
    /\ op = "array"
    /\ ~args.dims.isNone
    /\ Len(args.x.shape) >= 1
    /\ Len(args.x.shape) < args.dims.v
    /\ Prod(args.x.shape) >= 2
    /\ ret.exc = "none"

\* C2: with dims given and smaller than x's number of axes, array raises a
\* ValidationError on attribute 'dims' and returns no array, whatever
\* min_dims and readonly are.
C2_ArrayRejectsSmallDims ==
    (op = "array" /\ ~args.dims.isNone /\ args.dims.v < Len(args.x.shape)) =>
        /\ ret.exc = "ValidationError"
        /\ ret.attr = "dims"
        /\ ret.val = <<>>
        /\ heap = <<>>

\* The rejection happened although min_dims alone would have allowed x.
C2_Witness ==
    /\ op = "array"
    /\ ~args.dims.isNone
    /\ args.dims.v < Len(args.x.shape)
    /\ args.min_dims >= Len(args.x.shape)
    /\ args.readonly
    /\ ret.exc = "ValidationError"

\* C3: an array returned with readonly=True refuses every write and keeps
\* the contents it was returned with; one returned with readonly=False
\* accepts writes.
C3_ReadonlyRefusesWrites ==
    (op = "array" /\ ret.exc = "none") =>
        /\ args.readonly =>
            /\ wr.status # "ok"
            /\ heap[1].data = ret.val.data
        /\ ~args.readonly =>
            /\ wr.status # "ValueError"
            /\ wr.status = "ok" => heap[1].data[wr.i] = wr.v

\* A write of a new value to a read-only result was refused.
C3_Witness ==
    /\ op = "array"
    /\ ret.exc = "none"
    /\ args.readonly
    /\ wr.status = "ValueError"
    /\ wr.v # ret.val.data[wr.i]

\* The exception classes that are TypeError or derive from it.  ValueError
\* derives from Exception and is not among them.
TypeErrorClass == {"TypeError"}

\* C4, as claimed: as_shape of an x that is neither iterable nor an integer
\* fails with a TypeError-class error and returns no shape.
C4_AsShapeRaisesTypeError ==
    (op = "as_shape" /\ args.x.kind = "other") =>
        /\ ret.exc \in TypeErrorClass
        /\ ret.val = <<>>

\* C4, amended: as_shape of an x that is neither iterable nor an integer
\* fails with a ValueError saying x cannot be safely converted to a shape,
\* for every min_dim, and returns no shape.
C4_AsShapeRaisesValueError ==
    (op = "as_shape" /\ args.x.kind = "other") =>
        /\ ret.exc = "ValueError"
        /\ ret.msg = "cannot be safely converted to a shape"
        /\ ret.val = <<>>

\* as_shape failed on such an x although a padding was asked for.
C4_Witness ==
    /\ op = "as_shape"
    /\ args.x.kind = "other"
    /\ args.min_dim > 0
    /\ ret.exc # "none"

\* r is s, left-padded with 1s to length m when s is shorter than m.
LeftPadded(s, m, r) ==
    /\ Len(r) = Max(Len(s), m)
    /\ Len(s) >= m => r = s
    /\ Len(s) < m =>
        \A i \in 1..m :
            r[i] = IF i <= m - Len(s) THEN 1 ELSE s[i - (m - Len(s))]

\* C5: as_shape(s, min_dim=m) and broadcast_shape(s, m) return s unchanged
\* when len(s) >= m and otherwise m - len(s) ones followed by s; as_shape
\* takes an integer x for the shape (x,).
C5_LeftPadding ==
    /\ (op = "as_shape" /\ args.x.kind = "iterable") =>
        /\ ret.exc = "none"
        /\ LeftPadded(args.x.items, args.min_dim, ret.val)
    /\ (op = "as_shape" /\ args.x.kind = "integer") =>
        /\ ret.exc = "none"
        /\ LeftPadded(<<args.x.n>>, args.min_dim, ret.val)
    /\ op = "broadcast_shape" =>
        /\ ret.exc = "none"
        /\ LeftPadded(args.shape, args.length, ret.val)

\* as_shape padded a non-empty shape whose first entry is not 1.
C5_Witness ==
    /\ op = "as_shape"
    /\ args.x.kind = "iterable"
    /\ Len(args.x.items) >= 1
    /\ args.x.items[1] # 1
    /\ args.min_dim > Len(args.x.items)
    /\ ret.exc = "none"

\* compare(a, b) == -compare(b, a) whenever both are defined; 0 exactly when
\* a == b, 1 when a > b, -1 when a < b, None only when none of these holds.
CompareClassifies ==
    LET a == args.a
        b == args.b
        ordered == ~a.nan /\ ~b.nan
    IN  /\ (~ret.ab.isNone /\ ~ret.ba.isNone) => ret.ab.v = -ret.ba.v
        /\ ret.ab = Some(0) <=> (ordered /\ a.v = b.v)
        /\ (ordered /\ a.v > b.v) => ret.ab = Some(1)
        /\ (ordered /\ a.v < b.v) => ret.ab = Some(-1)
        /\ ret.ab.isNone <=> ~ordered

\* C6, as claimed: compare is antisymmetric and classifies, and
\* compare(a, a) == 0 for all a.
C6_CompareReflexiveForAll ==
    op = "compare" =>
        /\ CompareClassifies
        /\ ret.aa = Some(0)

\* C6, amended: compare is antisymmetric and classifies, and compare(a, a)
\* is 0 for every a that equals itself; for a NaN it is None.
C6_CompareReflexiveUnlessNaN ==
    op = "compare" =>
        /\ CompareClassifies
        /\ ~args.a.nan => ret.aa = Some(0)
        /\ args.a.nan => ret.aa = None

\* compare(a, b) with a > b.
C6_Witness ==
    /\ op = "compare"
    /\ ~args.a.nan
    /\ ~args.b.nan
    /\ args.a.v > args.b.v
    /\ ret.ab = Some(1)
    /\ ret.ba = Some(-1)

\* The index tuple the k-th sample of index arrays inds names.
SampledIndex(inds, k) == [i \in 1..Len(inds) |-> inds[i][k]]

C8_MeshgridVariesAlongOwnAxis ==
    op = "meshgrid_nd" =>
        LET a == args.a
            k == Len(a)
            shape == [j \in 1..k |-> Len(a[j])]
        IN  /\ ret.exc = "none"
            /\ Len(ret.val) = k
            /\ \A i \in 1..k :
                /\ ret.val[i].shape = shape
                /\ Len(ret.val[i].data) = Prod(shape)
            /\ \A p \in 0..(Prod(shape) - 1) :
                   LET idx == Unravel(shape, p)
                   IN  \A i \in 1..k : ElemAt(ret.val[i], idx) = a[i][idx[i] + 1]

\* A grid of two inputs of two different elements each.
C8_Witness ==
    /\ op = "meshgrid_nd"
    /\ Len(args.a) = 2
    /\ Len(args.a[1]) = 2
    /\ Len(args.a[2]) = 2
    /\ args.a[1][1] # args.a[1][2]
    /\ args.a[2][1] # args.a[2][2]
    /\ Len(ret.val) = 2

\* C9: the fallback rfftfreq(n, d) has n // 2 + 1 entries, the k-th being
\* k / (n * d) as the native function returns it, all non-negative.
C9_FallbackMatchesNative ==
    op = "rfftfreq" =>
        LET n == args.n
            d == args.d
        IN  /\ Len(ret.val) = n \div 2 + 1
            /\ \A k \in 0..(n \div 2) :
                /\ RatEq(ret.val[k + 1], Rat(k, n * d))
                /\ RatNonNeg(ret.val[k + 1])

\* With a positive sample spacing the fallback does return k / (n * d),
\* k = 0 .. n // 2, all non-negative.
FallbackMatchesNativeForPositiveSpacing ==
    (op = "rfftfreq" /\ args.d > 0) =>
        LET n == args.n
            d == args.d
        IN  /\ Len(ret.val) = n \div 2 + 1
            /\ \A k \in 0..(n \div 2) :
                /\ RatEq(ret.val[k + 1], Rat(k, n * d))
                /\ RatNonNeg(ret.val[k + 1])

\* C10: array_hash leaves its argument as it was: the same shape, contents
\* and writeable flag, in both branches.
C10_ArrayHashLeavesArgument ==
    op = "array_hash" =>
        /\ Len(heap) >= 1
        /\ heap[1].shape = args.a.shape
        /\ heap[1].data = args.a.data
        /\ heap[1].writeable = args.writeable
        /\ heap[1].base = 0

\* The whole of a writeable array was hashed through a read-only view.
C10_Witness ==
    /\ op = "array_hash"
    /\ args.writeable
    /\ Prod(args.a.shape) < args.n
    /\ Prod(args.a.shape) >= 1
    /\ Len(heap) = 2
    /\ heap[2].base = 1
    /\ ~heap[2].writeable

====
